---------------------------- MODULE Spec2Model ----------------------------
(***************************************************************************)
(* npchat: the observer / fan-out core.                                    *)
(*                                                                         *)
(* ChatObservers (ChatObserver.hpp) keeps two indices,                     *)
(* user_listeners_ and chat_participants_, and posts every mutation and    *)
(* every fan-out as a task onto the executor of its base class ObserversT. *)
(* The listeners are remote objects: a call on one either returns or       *)
(* throws nprpc::Exception.                                                *)
(*                                                                         *)
(* RegisteredUserImpl (RegisteredUser.cpp) is the RPC surface that drives  *)
(* it, on top of ChatService (ChatService.hpp):                            *)
(* the chats, chat_participants and messages tables and the participant    *)
(* cache in front of them. One RPC is one step.                            *)
(*                                                                         *)
(* WebRTCService (WebRTCService.hpp, its methods in MessageService.hpp) is *)
(* the call store behind the call RPCs of RegisteredUserImpl; every method *)
(* holds the store's mutex, InitiateCall takes it twice.                   *)
(***************************************************************************)
EXTENDS Integers, Sequences, FiniteSets, TLC

VARIABLES
  user_listeners_,     \* ChatObservers: userId -> vector<ChatListener*>
  chat_participants_,  \* ChatObservers: chatId -> unordered_set<userId>
  observers_,          \* ObserversT: the base observer list filled by add_impl
  queue,               \* the executor's pending handlers, oldest first
  cur,                 \* the handler the executor is running / has just run
  clock,               \* history: handlers posted so far (counted in SpecFifo only)
  chats,               \* ChatService: tables chats and chat_participants
  messages,            \* ChatService: table messages, row id = position
  chat_participants_cache_,  \* ChatService: chatId -> vector<userId>
  alive,               \* the server process has not crashed
  activeCalls_,        \* WebRTCService: callId -> CallInfo
  now,                 \* std::chrono::system_clock::now(), in hours
  initiating,          \* userId -> the InitiateCall of the user that has passed
                       \* its checks and has not yet stored the call
  reply,               \* how the last call RPC ended
  seeding,             \* userId -> the SubscribeToEvents of the user that has
                       \* posted its listener and is seeding its chats
  mutex_,              \* ChatService: the thread that holds the mutex, or 0
  at                   \* thread -> where it is inside a ChatService method

directory == <<user_listeners_, chat_participants_, observers_>>
storage == <<chats, messages, chat_participants_cache_, alive>>
calls == <<activeCalls_, now, initiating, reply>>
handlers == <<seeding, mutex_, at>>
vars == <<user_listeners_, chat_participants_, observers_, queue, cur, clock,
          chats, messages, chat_participants_cache_, alive,
          activeCalls_, now, initiating, reply, seeding, mutex_, at>>

----------------------------------------------------------------------------
(* Universe and bounds *)

Users == {1, 2, 3}
Listeners == {"L1", "L2", "L3"}
Chats == {41, 42}

MaxQueue == 1       \* pending handlers the executor may hold (Spec, SpecRoute)
MaxListeners == 2   \* listener entries the directory may accumulate
FifoQueue == 2      \* pending handlers the executor may hold (SpecFifo)
MaxPosts == 4       \* handlers posted in one run (SpecFifo)
RpcQueue == 3       \* pending handlers the executor may hold (SpecRpc)
MaxMessages == 1    \* rows the messages table may get (SpecRpc)

----------------------------------------------------------------------------
(* std::unordered_map as a function whose DOMAIN is the set of keys present *)

EmptyMap == <<>>

Has(m, k) == k \in DOMAIN m

Erase(m, k) == [x \in DOMAIN m \ {k} |-> m[x]]

Put(m, k, v) == [x \in DOMAIN m \cup {k} |-> IF x = k THEN v ELSE m[x]]

\* std::remove + erase: every occurrence of x goes, the order of the rest stays
RECURSIVE RemoveAll(_, _)
RemoveAll(s, x) ==
  IF s = <<>> THEN <<>>
  ELSE IF Head(s) = x THEN RemoveAll(Tail(s), x)
       ELSE <<Head(s)>> \o RemoveAll(Tail(s), x)

\* erase of the first occurrence only (what find + erase would do)
RECURSIVE RemoveFirst(_, _)
RemoveFirst(s, x) ==
  IF s = <<>> THEN <<>>
  ELSE IF Head(s) = x THEN Tail(s)
       ELSE <<Head(s)>> \o RemoveFirst(Tail(s), x)

Range(s) == {s[i] : i \in DOMAIN s}

Count(s, x) == Cardinality({i \in DOMAIN s : s[i] = x})

\* the iteration orders an unordered_set may present its elements in
Orders(S) ==
  {o \in [1..Cardinality(S) -> S] : \A i, j \in DOMAIN o : i # j => o[i] # o[j]}

----------------------------------------------------------------------------
(* The directory mutations: the bodies of the lambdas ChatObservers posts *)

subscribe_impl(ul, userId, listener) ==
  Put(ul, userId, Append(IF Has(ul, userId) THEN ul[userId] ELSE <<>>, listener))

unsubscribe_first_only(ul, userId, listener) ==
  IF ~Has(ul, userId) THEN ul
  ELSE LET listeners == RemoveFirst(ul[userId], listener)
       IN IF listeners = <<>> THEN Erase(ul, userId)
          ELSE Put(ul, userId, listeners)

unsubscribe_keeps_empty_key(ul, userId, listener) ==
  IF ~Has(ul, userId) THEN ul
  ELSE Put(ul, userId, RemoveAll(ul[userId], listener))

unsubscribe_impl(ul, userId, listener) ==
  IF ~Has(ul, userId) THEN ul
  ELSE LET listeners == RemoveAll(ul[userId], listener)
       IN IF listeners = <<>> THEN Erase(ul, userId)
          ELSE Put(ul, userId, listeners)

add_participants_replace(cp, chatId, participants) ==
  Put(cp, chatId, participants)

add_participants_impl(cp, chatId, participants) ==
  Put(cp, chatId, (IF Has(cp, chatId) THEN cp[chatId] ELSE {}) \cup participants)

remove_keeps_empty_entry(cp, chatId, userId) ==
  IF ~Has(cp, chatId) THEN cp
  ELSE Put(cp, chatId, cp[chatId] \ {userId})

remove_participant_impl(cp, chatId, userId) ==
  IF ~Has(cp, chatId) THEN cp
  ELSE LET chat_users == cp[chatId] \ {userId}
       IN IF chat_users = {} THEN Erase(cp, chatId)
          ELSE Put(cp, chatId, chat_users)

\* ObserversT::add_impl
add_impl(obs, listener) == obs \cup {listener}


----------------------------------------------------------------------------
(* The handlers ChatObservers posts, as values held by the executor. seq is
   history: the handler's submission number, 0 where submissions are not
   counted. *)

SubscribeTask(u, h) ==
  [op |-> "subscribe_user", userId |-> u, listener |-> h, seq |-> clock]
UnsubscribeTask(u, h) ==
  [op |-> "unsubscribe_user", userId |-> u, listener |-> h, seq |-> clock]
AddTask(c, P) ==
  [op |-> "add_chat_participants", chatId |-> c, participants |-> P, seq |-> clock]
RemoveTask(c, u) ==
  [op |-> "remove_chat_participant", chatId |-> c, userId |-> u, seq |-> clock]
ReceivedTask(m, c, s) ==
  [op |-> "on_message_received", messageId |-> m, chatId |-> c, senderId |-> s,
   seq |-> clock]
DeliveredTask(c, m, s) ==
  [op |-> "on_message_delivered", messageId |-> m, chatId |-> c, senderId |-> s,
   seq |-> clock]
ContactTask(u) ==
  [op |-> "on_contact_list_updated", userId |-> u, seq |-> clock]

\* the call events; the handlers behind them follow the relay's contract
CallInitiatedTask(callId, chatId, callerId, calleeId) ==
  [op |-> "on_call_initiated", callId |-> callId, chatId |-> chatId,
   callerId |-> callerId, calleeId |-> calleeId, seq |-> clock]
CallAnsweredTask(callId, answer, callerId) ==
  [op |-> "on_call_answered", callId |-> callId, answer |-> answer,
   callerId |-> callerId, seq |-> clock]
IceCandidateTask(callId, candidate, targetUserId) ==
  [op |-> "on_ice_candidate", callId |-> callId, candidate |-> candidate,
   targetUserId |-> targetUserId, seq |-> clock]
CallEndedTask(callId, reason, chatId) ==
  [op |-> "on_call_ended", callId |-> callId, reason |-> reason,
   chatId |-> chatId, seq |-> clock]

CallEventOps ==
  {"on_call_initiated", "on_call_answered", "on_ice_candidate", "on_call_ended"}

EventOps == {"on_message_received", "on_message_delivered", "on_contact_list_updated"}
ChatEventOps == {"on_message_received", "on_message_delivered"}

IdleTask == [op |-> "idle", seq |-> 0]

\* cur before the executor has run anything. todo: the listener calls the
\* running handler has still to make; done: the calls it has made; threw:
\* the position in done of the first call that threw, 0 if none did; same:
\* the handler left both indices as they were.
Idle == [task |-> IdleTask, todo |-> <<>>, done |-> <<>>, threw |-> 0, same |-> TRUE]

\* nplib::async<false>(executor(), f): f joins the executor's pending handlers
post(q, t) == Append(q, t)

\* the executor takes the oldest pending handler
next_handler(q) == Head(q)

rest_handlers(q) == Tail(q)

----------------------------------------------------------------------------
(* Resolution: the loops of the on_*_impl methods, as the calls they make *)

\* operator[] in place of find: a missing key is inserted
chat_index(cp, chatId) == IF Has(cp, chatId) THEN cp ELSE Put(cp, chatId, {})

\* chat_participants_.find(chatId): the map is only read
chat_find(cp, chatId) == cp

\* user_listeners_.find(userId): the map is only read
user_find(ul, userId) == ul

RECURSIVE user_find_all(_, _)
user_find_all(ul, ord) ==
  IF ord = <<>> THEN ul ELSE user_find_all(user_find(ul, Head(ord)), Tail(ord))

\* for (auto* listener : user_it->second), for one user
CallsOf(ul, u) ==
  IF Has(ul, u) THEN [i \in 1..Len(ul[u]) |-> <<u, ul[u][i]>>] ELSE <<>>

\* the users visited in the order ord, each user's listeners in vector order
RECURSIVE CallsInOrder(_, _)
CallsInOrder(ul, ord) ==
  IF ord = <<>> THEN <<>>
  ELSE CallsOf(ul, Head(ord)) \o CallsInOrder(ul, Tail(ord))

\* the loop without its "continue": the sender is visited like anyone else
received_visits_sender_too(cp, chatId, senderId) ==
  IF Has(cp, chatId) THEN cp[chatId] ELSE {}

\* on_message_received_impl: every participant of the chat except the sender
received_targets(cp, chatId, senderId) ==
  IF Has(cp, chatId) THEN cp[chatId] \ {senderId} ELSE {}

\* on_message_delivered_impl / on_contact_list_updated_impl: one user
no_target(userId) == <<>>

everyone_target(userId) == <<1, 2>>

single_target(userId) == <<userId>>

\* an exception that leaves the loop: the remaining calls are not made
abort_on_exception(remaining) == <<>>

\* catch (nprpc::Exception&) {}: the loop goes on with the remaining calls
on_exception(remaining) == remaining

----------------------------------------------------------------------------
(* State after construction *)

\* no RPC has ended yet
NoReply == [rpc |-> "none", result |-> "none"]

\* WebRTCService(): no call; no call RPC under way
NoCalls ==
  /\ activeCalls_ = EmptyMap
  /\ now = 0
  /\ initiating = EmptyMap
  /\ reply = NoReply

\* no RPC handler is between two of its calls
Outside == [pc |-> "outside", chat_id |-> 0, participants |-> {}]

NoHandlers ==
  /\ seeding = EmptyMap
  /\ mutex_ = 0
  /\ at = [t \in {1, 2} |-> Outside]

Init ==
  /\ user_listeners_ = EmptyMap
  /\ chat_participants_ = EmptyMap
  /\ observers_ = {}
  /\ queue = <<>>
  /\ cur = Idle
  /\ clock = 0
  /\ chats = EmptyMap
  /\ messages = <<>>
  /\ chat_participants_cache_ = EmptyMap
  /\ alive = TRUE
  /\ NoCalls
  /\ NoHandlers

\* listener entries user u has
Entries(u) == IF Has(user_listeners_, u) THEN Len(user_listeners_[u]) ELSE 0

RECURSIVE Sum(_, _)
Sum(f, S) ==
  IF S = {} THEN 0
  ELSE LET x == CHOOSE x \in S : TRUE IN f[x] + Sum(f, S \ {x})

\* listener entries the directory holds or is about to get
AllEntries ==
  Sum([u \in Users |-> Entries(u)], Users)
  + Cardinality({i \in DOMAIN queue : queue[i].op = "subscribe_user"})

\* user u has a listener entry or is about to get one
Listed_or_pending(u) ==
  \/ Has(user_listeners_, u)
  \/ \E i \in DOMAIN queue : queue[i].op = "subscribe_user" /\ queue[i].userId = u

Unchanged_directory == UNCHANGED directory

Unchanged_calls == UNCHANGED calls

Unchanged_handlers == UNCHANGED handlers

Unchanged_storage == UNCHANGED storage /\ Unchanged_calls /\ Unchanged_handlers

----------------------------------------------------------------------------
(* The executor: one handler at a time, the next one only when the running
   one has returned *)

Running == cur.todo # <<>>

\* the users an event handler looks up
Targets(t) ==
  IF t.op = "on_message_received"
    THEN received_targets(chat_participants_, t.chatId, t.senderId)
  ELSE IF t.op = "on_message_delivered" THEN {t.senderId}
  ELSE {t.userId}

\* ... in the orders it may visit them
TargetOrders(t) ==
  IF t.op = "on_message_received" THEN Orders(Targets(t))
  ELSE IF t.op = "on_message_delivered" THEN {single_target(t.senderId)}
  ELSE {single_target(t.userId)}

RunMutation(t) ==
  /\ user_listeners_' =
       IF t.op = "subscribe_user"
         THEN subscribe_impl(user_listeners_, t.userId, t.listener)
       ELSE IF t.op = "unsubscribe_user"
         THEN unsubscribe_impl(user_listeners_, t.userId, t.listener)
       ELSE user_listeners_
  /\ chat_participants_' =
       IF t.op = "add_chat_participants"
         THEN add_participants_impl(chat_participants_, t.chatId, t.participants)
       ELSE IF t.op = "remove_chat_participant"
         THEN remove_participant_impl(chat_participants_, t.chatId, t.userId)
       ELSE chat_participants_
  /\ observers_' =
       IF t.op = "subscribe_user" THEN add_impl(observers_, t.listener)
       ELSE observers_
  /\ cur' = [Idle EXCEPT !.task = t,
               !.same = /\ user_listeners_' = user_listeners_
                        /\ chat_participants_' = chat_participants_]

RunEvent(t) ==
  /\ \E ord \in TargetOrders(t) :
       /\ chat_participants_' =
            IF t.op = "on_message_received"
              THEN chat_find(chat_participants_, t.chatId)
              ELSE chat_participants_
       /\ user_listeners_' = user_find_all(user_listeners_, ord)
       /\ cur' = [Idle EXCEPT !.task = t,
                    !.todo = CallsInOrder(user_listeners_', ord),
                    !.same = /\ user_listeners_' = user_listeners_
                             /\ chat_participants_' = chat_participants_]
  /\ UNCHANGED observers_

\* the users a call event is addressed to: the chat for CallInitiated and
\* CallEnded, the caller for CallAnswered, the other party for IceCandidate
CallTargets(t) ==
  IF t.op \in {"on_call_initiated", "on_call_ended"}
    THEN IF Has(chat_participants_, t.chatId) THEN chat_participants_[t.chatId] ELSE {}
  ELSE IF t.op = "on_call_answered" THEN {t.callerId}
  ELSE {t.targetUserId}

RunCallEvent(t) ==
  /\ \E ord \in Orders(CallTargets(t)) :
       cur' = [Idle EXCEPT !.task = t, !.todo = CallsInOrder(user_listeners_, ord)]
  /\ Unchanged_directory

\* an executor that takes the next handler while the running one still has
\* listener calls to make
Run_preempting ==
  /\ alive
  /\ queue # <<>>
  /\ queue' = rest_handlers(queue)
  /\ IF next_handler(queue).op \in EventOps
       THEN RunEvent(next_handler(queue))
       ELSE IF next_handler(queue).op \in CallEventOps
         THEN RunCallEvent(next_handler(queue))
         ELSE RunMutation(next_handler(queue))
  /\ UNCHANGED clock
  /\ Unchanged_storage

Run ==
  /\ alive
  /\ queue # <<>>
  /\ ~Running
  /\ queue' = rest_handlers(queue)
  /\ IF next_handler(queue).op \in EventOps
       THEN RunEvent(next_handler(queue))
       ELSE IF next_handler(queue).op \in CallEventOps
         THEN RunCallEvent(next_handler(queue))
         ELSE RunMutation(next_handler(queue))
  /\ UNCHANGED clock
  /\ Unchanged_storage

\* a fan-out whose failed call takes the message back out of the table
Invoke_reporting ==
  /\ alive
  /\ Running
  /\ \E ok \in BOOLEAN :
       /\ cur' = [cur EXCEPT
                    !.todo = IF ok THEN Tail(@) ELSE on_exception(Tail(@)),
                    !.done = Append(@, Head(cur.todo)),
                    !.threw = IF ok \/ @ # 0 THEN @ ELSE Len(cur.done) + 1]
       /\ messages' = IF ok \/ cur.task.op # "on_message_received" THEN messages
                      ELSE [messages EXCEPT ![cur.task.messageId].live = FALSE]
  /\ UNCHANGED <<queue, clock, chats, chat_participants_cache_, alive>>
  /\ Unchanged_directory
  /\ Unchanged_calls
  /\ Unchanged_handlers

\* one listener->On...(...) call of the running fan-out: it returns, or the
\* remote side fails or times out and the call throws nprpc::Exception
Invoke ==
  /\ alive
  /\ Running
  /\ \E ok \in BOOLEAN :
       cur' = [cur EXCEPT
                 !.todo = IF ok THEN Tail(@) ELSE on_exception(Tail(@)),
                 !.done = Append(@, Head(cur.todo)),
                 !.threw = IF ok \/ @ # 0 THEN @ ELSE Len(cur.done) + 1]
  /\ UNCHANGED <<queue, clock>>
  /\ Unchanged_directory
  /\ Unchanged_storage

----------------------------------------------------------------------------
(* The public methods of ChatObservers: each posts one handler and returns *)

subscribe_user(userId, listener) ==
  /\ queue' = post(queue, SubscribeTask(userId, listener))
  /\ UNCHANGED cur
  /\ Unchanged_directory
  /\ Unchanged_storage

\* the same without the executor: the caller's thread edits the index
unsubscribe_user_inline(userId, listener) ==
  /\ user_listeners_' = unsubscribe_impl(user_listeners_, userId, listener)
  /\ UNCHANGED <<chat_participants_, observers_, queue, cur>>
  /\ Unchanged_storage

unsubscribe_user(userId, listener) ==
  /\ queue' = post(queue, UnsubscribeTask(userId, listener))
  /\ UNCHANGED cur
  /\ Unchanged_directory
  /\ Unchanged_storage

add_chat_participants(chatId, participants) ==
  /\ queue' = post(queue, AddTask(chatId, participants))
  /\ UNCHANGED cur
  /\ Unchanged_directory
  /\ Unchanged_storage

remove_chat_participant(chatId, userId) ==
  /\ queue' = post(queue, RemoveTask(chatId, userId))
  /\ UNCHANGED cur
  /\ Unchanged_directory
  /\ Unchanged_storage

\* the same without the executor: the fan-out starts in the caller's thread
notify_message_received_inline(messageId, chatId, senderId) ==
  /\ ~Running
  /\ RunEvent(ReceivedTask(messageId, chatId, senderId))
  /\ UNCHANGED queue
  /\ Unchanged_storage

notify_message_received(messageId, chatId, senderId) ==
  /\ queue' = post(queue, ReceivedTask(messageId, chatId, senderId))
  /\ UNCHANGED cur
  /\ Unchanged_directory
  /\ Unchanged_storage

notify_message_delivered(chatId, messageId, senderId) ==
  /\ queue' = post(queue, DeliveredTask(chatId, messageId, senderId))
  /\ UNCHANGED cur
  /\ Unchanged_directory
  /\ Unchanged_storage

notify_contact_list_updated(userId) ==
  /\ queue' = post(queue, ContactTask(userId))
  /\ UNCHANGED cur
  /\ Unchanged_directory
  /\ Unchanged_storage

----------------------------------------------------------------------------
(* Spec: ChatObservers driven through all of its public methods by two users
   with two listener objects and one chat *)

Users2 == {1, 2}
Listeners2 == {"L1", "L2"}
Chats1 == {42}
MessageIds == {7}

Next ==
  \/ /\ Len(queue) < MaxQueue
     /\ UNCHANGED clock
     /\ \/ \E u \in Users2, h \in Listeners2 :
             AllEntries < MaxListeners /\ subscribe_user(u, h)
        \/ \E u \in Users2, h \in Listeners2 : unsubscribe_user(u, h)
        \/ \E c \in Chats1, P \in SUBSET Users2 : add_chat_participants(c, P)
        \/ \E c \in Chats1, u \in Users2 : remove_chat_participant(c, u)
        \/ \E m \in MessageIds, c \in Chats1, s \in Users2 :
             notify_message_received(m, c, s)
        \/ \E m \in MessageIds, c \in Chats1, s \in Users2 :
             notify_message_delivered(c, m, s)
        \/ \E u \in Users2 : notify_contact_list_updated(u)
  \/ Run
  \/ Invoke

Spec == Init /\ [][Next]_vars

----------------------------------------------------------------------------
(* SpecRoute: message fan-out over three users and two chats; every user
   subscribes the listener object of its own session, chat 42 gains and loses
   any participants, chat 41 is the chat of users 1 and 3 *)

ListenerOf(u) == IF u = 1 THEN "L1" ELSE IF u = 2 THEN "L2" ELSE "L3"

NextRoute ==
  \/ /\ Len(queue) < MaxQueue
     /\ UNCHANGED clock
     /\ \/ \E u \in Users : AllEntries < MaxListeners /\ subscribe_user(u, ListenerOf(u))
        \/ \E P \in {{1}, {3}, {1, 2}} : add_chat_participants(42, P)
        \/ add_chat_participants(41, {1, 3})
        \/ \E u \in Users : remove_chat_participant(42, u)
        \/ \E m \in MessageIds, c \in Chats, s \in Users :
             notify_message_received(m, c, s)
  \/ Run
  \/ Invoke

SpecRoute == Init /\ [][NextRoute]_vars

----------------------------------------------------------------------------
(* SpecFifo: two users, their own listeners and one chat, with every posted
   handler numbered in submission order *)

InitFifo ==
  /\ user_listeners_ = EmptyMap
  /\ chat_participants_ = EmptyMap
  /\ observers_ = {}
  /\ queue = <<>>
  /\ cur = Idle
  /\ clock = 1
  /\ chats = EmptyMap
  /\ messages = <<>>
  /\ chat_participants_cache_ = EmptyMap
  /\ alive = TRUE
  /\ NoCalls
  /\ NoHandlers

NextFifo ==
  \/ /\ Len(queue) < FifoQueue
     /\ clock <= MaxPosts
     /\ clock' = clock + 1
     /\ \/ \E u \in Users2 : AllEntries < MaxListeners /\ subscribe_user(u, ListenerOf(u))
        \/ \E u \in Users2 : unsubscribe_user(u, ListenerOf(u))
        \/ \E P \in {{1}, Users2} : add_chat_participants(42, P)
        \/ \E s \in Users2 : notify_message_received(clock, 42, s)
        \/ \E s \in Users2 : notify_message_delivered(42, clock, s)
        \/ \E u \in Users2 : remove_chat_participant(42, u)
        \/ \E u \in Users2 : notify_contact_list_updated(u)
  \/ Run
  \/ Invoke

SpecFifo == InitFifo /\ [][NextFifo]_vars

----------------------------------------------------------------------------
(* ChatService: the tables and the participant cache. A chats row and the
   chat_participants rows of the chat are one record; a deleted chats row
   stays as a dead record, because AUTOINCREMENT never hands its id out
   again. *)

ChatRow(creator_id, participant_ids) ==
  [created_by |-> creator_id, participants |-> participant_ids, live |-> TRUE]

\* the id sqlite gives the next chats row
NewChatId(rows) ==
  CHOOSE c \in Chats \ DOMAIN rows : \A d \in Chats \ DOMAIN rows : c <= d

\* get_chat_participants_stmt_
participant_rows(rows, chat_id) ==
  IF Has(rows, chat_id) THEN rows[chat_id].participants ELSE {}

\* get_user_chats_details_stmt_: the chats the user is a participant of
get_user_chats_details(rows, user_id) ==
  {c \in DOMAIN rows : rows[c].live /\ user_id \in rows[c].participants}

\* find_existing_chat_stmt_: the chats of exactly these two users
find_existing_chat(rows, user1_id, user2_id) ==
  {c \in DOMAIN rows :
     /\ rows[c].live
     /\ user1_id # user2_id
     /\ rows[c].participants = {user1_id, user2_id}}

\* getChatParticipants: the cache entry when there is one, else the rows ...
getChatParticipants(cache, rows, chat_id) ==
  IF Has(cache, chat_id) THEN cache[chat_id] ELSE participant_rows(rows, chat_id)

\* ... which it then caches
getChatParticipants_cache(cache, rows, chat_id) ==
  IF Has(cache, chat_id) THEN cache
  ELSE Put(cache, chat_id, participant_rows(rows, chat_id))

RECURSIVE cache_all(_, _, _)
cache_all(cache, rows, ids) ==
  IF ids = <<>> THEN cache
  ELSE cache_all(getChatParticipants_cache(cache, rows, Head(ids)), rows, Tail(ids))

\* createChat: the creator and the others become the rows and the cache entry
createChat_rows(rows, creator_id, participant_ids) ==
  Put(rows, NewChatId(rows), ChatRow(creator_id, {creator_id} \cup participant_ids))

createChat_cache(cache, rows, creator_id, participant_ids) ==
  Put(cache, NewChatId(rows), {creator_id} \cup participant_ids)

\* the same without the creator-or-self check
may_remove_as_participant(rows, requesting_user_id, chat_id, participant_id) ==
  chat_id \in get_user_chats_details(rows, requesting_user_id)

\* removeParticipant: the requester must be in the chat, and be its creator
\* or remove themself
may_remove(rows, requesting_user_id, chat_id, participant_id) ==
  /\ chat_id \in get_user_chats_details(rows, requesting_user_id)
  /\ \/ rows[chat_id].created_by = requesting_user_id
     \/ requesting_user_id = participant_id

remove_participant_row(rows, chat_id, participant_id) ==
  [rows EXCEPT ![chat_id].participants = @ \ {participant_id}]

\* deleteChat: the messages of the chat, then the chats row (the participant
\* rows cascade)
deleteChat_rows(rows, chat_id) ==
  [rows EXCEPT ![chat_id].live = FALSE, ![chat_id].participants = {}]

deleteChat_messages(msgs, chat_id) ==
  [i \in DOMAIN msgs |->
     IF msgs[i].chat_id = chat_id THEN [msgs[i] EXCEPT !.live = FALSE] ELSE msgs[i]]

\* insert_message_stmt_
insert_message(msgs, chat_id, sender_id) ==
  Append(msgs, [chat_id |-> chat_id, sender_id |-> sender_id, live |-> TRUE])

RECURSIVE post_all(_, _)
post_all(q, tasks) ==
  IF tasks = <<>> THEN q ELSE post_all(post(q, Head(tasks)), Tail(tasks))

----------------------------------------------------------------------------
(* RegisteredUserImpl: the RPCs of a logged-in user *)

CreateChat(userId) ==
  /\ chats' = createChat_rows(chats, userId, {userId})
  /\ chat_participants_cache_' =
       createChat_cache(chat_participants_cache_, chats, userId, {userId})
  /\ queue' = post(queue, AddTask(NewChatId(chats), {userId}))
  /\ UNCHANGED <<messages, alive, cur>>
  /\ Unchanged_directory
  /\ Unchanged_calls
  /\ Unchanged_handlers

CreateChatWith(userId, otherUserId) ==
  /\ LET found == find_existing_chat(chats, userId, otherUserId)
     IN IF found # {}
          THEN \E chatId \in found :
                 /\ chats' = chats
                 /\ chat_participants_cache_' =
                      getChatParticipants_cache(chat_participants_cache_, chats, chatId)
                 /\ queue' = post(queue, AddTask(chatId,
                      getChatParticipants(chat_participants_cache_, chats, chatId)))
          ELSE /\ chats' = createChat_rows(chats, userId, {otherUserId})
               /\ chat_participants_cache_' =
                    createChat_cache(chat_participants_cache_, chats, userId, {otherUserId})
               /\ queue' = post(queue, AddTask(NewChatId(chats),
                    getChatParticipants(chat_participants_cache_', chats', NewChatId(chats))))
  /\ UNCHANGED <<messages, alive, cur>>
  /\ Unchanged_directory
  /\ Unchanged_calls
  /\ Unchanged_handlers

\* removeParticipant succeeded: the directory is told. When the cached vector
\* became empty, deleteChat has erased the cache entry and removeParticipant
\* then erases through its own, now dangling, iterator: the process crashes
\* there or goes on.
\* removeParticipant threw: the RPC ends with ChatOperationFailed and nothing
\* has been written or posted.
LeaveChatParticipant(userId, chatId, participantUserId) ==
  /\ LET rows == remove_participant_row(chats, chatId, participantUserId)
         cached == Has(chat_participants_cache_, chatId)
         left == IF cached THEN chat_participants_cache_[chatId] \ {participantUserId}
                 ELSE {}
     IN IF ~may_remove(chats, userId, chatId, participantUserId)
          THEN UNCHANGED <<chats, messages, chat_participants_cache_, alive, queue>>
        ELSE IF cached /\ left = {}
          THEN /\ chats' = deleteChat_rows(rows, chatId)
               /\ messages' = deleteChat_messages(messages, chatId)
               /\ chat_participants_cache_' = Erase(chat_participants_cache_, chatId)
               /\ \E crash \in BOOLEAN :
                    /\ alive' = ~crash
                    /\ queue' = IF crash THEN queue
                                ELSE post(queue, RemoveTask(chatId, participantUserId))
          ELSE /\ chats' = rows
               /\ chat_participants_cache_' =
                    IF cached THEN Put(chat_participants_cache_, chatId, left)
                    ELSE chat_participants_cache_
               /\ queue' = post(queue, RemoveTask(chatId, participantUserId))
               /\ UNCHANGED <<messages, alive>>
  /\ UNCHANGED cur
  /\ Unchanged_directory
  /\ Unchanged_calls
  /\ Unchanged_handlers

\* the same with the listener posted after the chats
SubscribeToEvents_seed_first(userId, listener) ==
  /\ \E ids \in Orders(get_user_chats_details(chats, userId)) :
       /\ queue' = post(post_all(queue,
            [i \in DOMAIN ids |->
               AddTask(ids[i],
                       getChatParticipants(chat_participants_cache_, chats, ids[i]))]),
            SubscribeTask(userId, listener))
       /\ chat_participants_cache_' = cache_all(chat_participants_cache_, chats, ids)
  /\ UNCHANGED <<chats, messages, alive, cur>>
  /\ Unchanged_directory
  /\ Unchanged_calls
  /\ Unchanged_handlers

\* the listener first, then one add_chat_participants per chat of the user
SubscribeToEvents(userId, listener) ==
  /\ \E ids \in Orders(get_user_chats_details(chats, userId)) :
       /\ queue' = post_all(post(queue, SubscribeTask(userId, listener)),
            [i \in DOMAIN ids |->
               AddTask(ids[i],
                       getChatParticipants(chat_participants_cache_, chats, ids[i]))])
       /\ chat_participants_cache_' = cache_all(chat_participants_cache_, chats, ids)
  /\ UNCHANGED <<chats, messages, alive, cur>>
  /\ Unchanged_directory
  /\ Unchanged_calls
  /\ Unchanged_handlers

\* what SendMessage posts once ChatService::sendMessage has returned the id
send_notifications(q, messageId, chatId, senderId) ==
  post(post(q, ReceivedTask(messageId, chatId, senderId)),
       DeliveredTask(chatId, messageId, senderId))

\* sendMessage throws for a sender who is not a participant, and SendMessage
\* turns that into ChatOperationFailed: nothing is stored, nothing is posted
SendMessage(userId, chatId) ==
  /\ chat_participants_cache_' =
       getChatParticipants_cache(chat_participants_cache_, chats, chatId)
  /\ IF userId \in getChatParticipants(chat_participants_cache_, chats, chatId)
       THEN /\ messages' = insert_message(messages, chatId, userId)
            /\ queue' = send_notifications(queue, Len(messages'), chatId, userId)
       ELSE UNCHANGED <<messages, queue>>
  /\ UNCHANGED <<chats, alive, cur>>
  /\ Unchanged_directory
  /\ Unchanged_calls
  /\ Unchanged_handlers

----------------------------------------------------------------------------
(* SpecRpc: two users drive the server through its RPCs. FairRpc adds what
   the executor's thread gives: a handler that can run does run, a fan-out
   that has calls left makes them. *)

NextRpc ==
  \/ /\ alive
     /\ UNCHANGED clock
     /\ \/ \E u \in Users2 :
             /\ Len(queue) < RpcQueue
             /\ Chats \ DOMAIN chats # {}
             /\ CreateChat(u)
        \/ \E u, o \in Users2 :
             /\ Len(queue) < RpcQueue
             /\ Chats \ DOMAIN chats # {}
             /\ CreateChatWith(u, o)
        \/ \E u, p \in Users2, c \in Chats :
             /\ Len(queue) < RpcQueue
             /\ LeaveChatParticipant(u, c, p)
        \/ \E u \in Users2 :
             /\ AllEntries < MaxListeners
             /\ ~Listed_or_pending(u)
             /\ Len(queue) + 1 + Cardinality(get_user_chats_details(chats, u)) <= RpcQueue
             /\ SubscribeToEvents(u, ListenerOf(u))
        \/ \E u \in Users2, c \in Chats :
             /\ Len(messages) < MaxMessages
             /\ Len(queue) + 2 <= RpcQueue
             /\ SendMessage(u, c)
  \/ Run
  \/ Invoke

\* the database has seen one chat come and go: the next chat is chat 42
InitRpc ==
  /\ user_listeners_ = EmptyMap
  /\ chat_participants_ = EmptyMap
  /\ observers_ = {}
  /\ queue = <<>>
  /\ cur = Idle
  /\ clock = 0
  /\ chats = Put(EmptyMap, 41, [ChatRow(1, {}) EXCEPT !.live = FALSE])
  /\ messages = <<>>
  /\ chat_participants_cache_ = EmptyMap
  /\ alive = TRUE
  /\ NoCalls
  /\ NoHandlers

SpecRpc == InitRpc /\ [][NextRpc]_vars

FairRpc == SpecRpc /\ WF_vars(Run) /\ WF_vars(Invoke)

----------------------------------------------------------------------------
(* SpecRestart: the server has been started on the npchat.db an earlier run
   left: chat 42 of users 1 and 2, created by user 1, is in the tables, and
   the participant cache of the new ChatService is empty. The two users leave,
   subscribe and send. *)

InitRestart ==
  /\ user_listeners_ = EmptyMap
  /\ chat_participants_ = EmptyMap
  /\ observers_ = {}
  /\ queue = <<>>
  /\ cur = Idle
  /\ clock = 0
  /\ chats = Put(Put(EmptyMap, 41, [ChatRow(1, {}) EXCEPT !.live = FALSE]),
                 42, ChatRow(1, {1, 2}))
  /\ messages = <<>>
  /\ chat_participants_cache_ = EmptyMap
  /\ alive = TRUE
  /\ NoCalls
  /\ NoHandlers

NextRestart ==
  \/ /\ alive
     /\ UNCHANGED clock
     /\ \/ \E u, p \in Users2 :
             /\ Len(queue) < RpcQueue
             /\ LeaveChatParticipant(u, 42, p)
        \/ \E u \in Users2 :
             /\ AllEntries < MaxListeners
             /\ ~Listed_or_pending(u)
             /\ Len(queue) + 1 + Cardinality(get_user_chats_details(chats, u)) <= RpcQueue
             /\ SubscribeToEvents(u, ListenerOf(u))
        \/ \E u \in Users2 :
             /\ Len(messages) < MaxMessages
             /\ Len(queue) + 2 <= RpcQueue
             /\ SendMessage(u, 42)
  \/ Run
  \/ Invoke

SpecRestart == InitRestart /\ [][NextRestart]_vars

\* the executor's thread keeps taking handlers and making the calls of a fan-out
FairRestart == SpecRestart /\ WF_vars(Run) /\ WF_vars(Invoke)

----------------------------------------------------------------------------
(* WebRTCService: the call store. Every method takes mutex_ for its whole
   body, so each is one step. *)

CallIds == {"c1", "c2"}
Answers == {"answer"}
Candidates == {"X"}

RetentionHours == 24   \* std::chrono::hours(24)

MaxIce == 1         \* candidates a call may collect (SpecCall, SpecStore)
CallQueue == 1      \* pending handlers the executor may hold (SpecCall)
MaxNow == 26        \* hours the clock may reach (SpecStore, SpecClock)

CallInfo(callId, chatId, callerId, calleeId, offer, createdAt) ==
  [callId |-> callId, chatId |-> chatId, callerId |-> callerId,
   calleeId |-> calleeId, offer |-> offer, answer |-> "", iceCandidates |-> <<>>,
   isActive |-> TRUE, createdAt |-> createdAt]

\* generateCallId: 32 random hex digits; an id no stored call has
generateCallId(store) == CallIds \ DOMAIN store

initiateCall(store, callId, chatId, callerId, calleeId, offer, t) ==
  Put(store, callId, CallInfo(callId, chatId, callerId, calleeId, offer, t))

\* the bool answerCall, addIceCandidate and endCall return
call_found(store, callId) == Has(store, callId)

\* the same without the assignment
answerCall_dropped(store, callId, answer) == store

answerCall(store, callId, answer) ==
  IF ~Has(store, callId) THEN store
  ELSE [store EXCEPT ![callId].answer = answer]

addIceCandidate(store, callId, candidate) ==
  IF ~Has(store, callId) THEN store
  ELSE [store EXCEPT ![callId].iceCandidates = Append(@, candidate)]

endCall(store, callId) ==
  IF ~Has(store, callId) THEN store
  ELSE [store EXCEPT ![callId].isActive = FALSE]

\* std::optional<CallInfo>: the set holding the call, or the empty set
getCall(store, callId) == IF Has(store, callId) THEN {store[callId]} ELSE {}

getActiveCallsForChat(store, chatId) ==
  {id \in DOMAIN store : store[id].isActive /\ store[id].chatId = chatId}

\* the same passing over the calls that are still active
cleanup_inactive_only(store, t) ==
  [id \in {i \in DOMAIN store :
             store[i].isActive \/ ~(store[i].createdAt < t - RetentionHours)}
     |-> store[id]]

\* cutoff = now - 24 h; every call with createdAt < cutoff is erased
cleanupExpiredCalls(store, t) ==
  [id \in {i \in DOMAIN store : ~(store[i].createdAt < t - RetentionHours)}
     |-> store[id]]

----------------------------------------------------------------------------
(* RegisteredUserImpl: the call RPCs. One RPC is one step, except
   InitiateCall: between its look at the active calls of the chat and its
   initiateCall the mutex is free, and another RPC thread may run. *)

Reply(rpc, result) == [rpc |-> rpc, result |-> result]

\* throw npchat::ChatOperationFailed{error}: the RPC ends there
Throw(rpc, error) ==
  /\ reply' = Reply(rpc, error)
  /\ UNCHANGED <<activeCalls_, initiating, queue>>

\* InitiateCall up to and including getActiveCallsForChat
InitiateCall_check(userId, chatId) ==
  /\ ~Has(initiating, userId)
  /\ chat_participants_cache_' =
       getChatParticipants_cache(chat_participants_cache_, chats, chatId)
  /\ LET chatParticipants == getChatParticipants(chat_participants_cache_, chats, chatId)
     IN IF userId \notin chatParticipants
          THEN Throw("InitiateCall", "UserNotParticipant")
        ELSE IF chatParticipants \ {userId} = {}
          THEN Throw("InitiateCall", "ChatNotFound")
        ELSE IF getActiveCallsForChat(activeCalls_, chatId) # {}
          THEN Throw("InitiateCall", "InvalidMessage")
        ELSE \E otherUserId \in chatParticipants \ {userId} :
               /\ initiating' = Put(initiating, userId,
                    [chatId |-> chatId, otherUserId |-> otherUserId])
               /\ UNCHANGED <<activeCalls_, queue, reply>>
  /\ UNCHANGED <<handlers, now, chats, messages, alive, cur>>
  /\ Unchanged_directory

\* InitiateCall from initiateCall on: the call is stored, the chat is told
InitiateCall_store(userId) ==
  /\ Has(initiating, userId)
  /\ LET chatId == initiating[userId].chatId
         otherUserId == initiating[userId].otherUserId
     IN \E callId \in generateCallId(activeCalls_) :
          /\ activeCalls_' = initiateCall(activeCalls_, callId, chatId, userId,
                                          otherUserId, "offer", now)
          /\ queue' = post(queue, CallInitiatedTask(callId, chatId, userId, otherUserId))
  /\ initiating' = Erase(initiating, userId)
  /\ reply' = Reply("InitiateCall", "ok")
  /\ UNCHANGED <<handlers, now, storage, cur>>
  /\ Unchanged_directory

\* the same with the answer stored before the callee check
AnswerCall_store_first(userId, callId, answer) ==
  /\ IF getCall(activeCalls_, callId) = {}
       THEN Throw("AnswerCall", "ChatNotFound")
       ELSE \E call \in getCall(activeCalls_, callId) :
              /\ activeCalls_' = answerCall(activeCalls_, callId, answer)
              /\ UNCHANGED initiating
              /\ IF call.calleeId # userId
                   THEN /\ reply' = Reply("AnswerCall", "UserNotParticipant")
                        /\ UNCHANGED queue
                   ELSE /\ queue' = post(queue,
                             CallAnsweredTask(callId, answer, call.callerId))
                        /\ reply' = Reply("AnswerCall", "ok")
  /\ UNCHANGED <<handlers, now, storage, cur>>
  /\ Unchanged_directory

\* the same with the callee check left out
AnswerCall_by_anyone(userId, callId, answer) ==
  /\ IF getCall(activeCalls_, callId) = {}
       THEN Throw("AnswerCall", "ChatNotFound")
       ELSE \E call \in getCall(activeCalls_, callId) :
              /\ activeCalls_' = answerCall(activeCalls_, callId, answer)
              /\ queue' = post(queue, CallAnsweredTask(callId, answer, call.callerId))
              /\ reply' = Reply("AnswerCall", "ok")
              /\ UNCHANGED initiating
  /\ UNCHANGED <<handlers, now, storage, cur>>
  /\ Unchanged_directory

AnswerCall(userId, callId, answer) ==
  /\ IF getCall(activeCalls_, callId) = {}
       THEN Throw("AnswerCall", "ChatNotFound")
       ELSE \E call \in getCall(activeCalls_, callId) :
              IF call.calleeId # userId
                THEN Throw("AnswerCall", "UserNotParticipant")
              ELSE IF ~call_found(activeCalls_, callId)
                THEN Throw("AnswerCall", "InvalidMessage")
              ELSE /\ activeCalls_' = answerCall(activeCalls_, callId, answer)
                   /\ queue' = post(queue, CallAnsweredTask(callId, answer, call.callerId))
                   /\ reply' = Reply("AnswerCall", "ok")
                   /\ UNCHANGED initiating
  /\ UNCHANGED <<handlers, now, storage, cur>>
  /\ Unchanged_directory

\* the target always the callee
ice_target_callee(call, userId) == call.calleeId

\* (call.callerId == userId_) ? call.calleeId : call.callerId
ice_target(call, userId) ==
  IF call.callerId = userId THEN call.calleeId ELSE call.callerId

SendIceCandidate(userId, callId, candidate) ==
  /\ IF getCall(activeCalls_, callId) = {}
       THEN Throw("SendIceCandidate", "ChatNotFound")
       ELSE \E call \in getCall(activeCalls_, callId) :
              IF call.callerId # userId /\ call.calleeId # userId
                THEN Throw("SendIceCandidate", "UserNotParticipant")
              ELSE IF ~call_found(activeCalls_, callId)
                THEN Throw("SendIceCandidate", "InvalidMessage")
              ELSE /\ activeCalls_' = addIceCandidate(activeCalls_, callId, candidate)
                   /\ queue' = post(queue,
                        IceCandidateTask(callId, candidate, ice_target(call, userId)))
                   /\ reply' = Reply("SendIceCandidate", "ok")
                   /\ UNCHANGED initiating
  /\ UNCHANGED <<handlers, now, storage, cur>>
  /\ Unchanged_directory

EndCall(userId, callId) ==
  /\ IF getCall(activeCalls_, callId) = {}
       THEN Throw("EndCall", "ChatNotFound")
       ELSE \E call \in getCall(activeCalls_, callId) :
              IF call.callerId # userId /\ call.calleeId # userId
                THEN Throw("EndCall", "UserNotParticipant")
              ELSE IF ~call_found(activeCalls_, callId)
                THEN Throw("EndCall", "InvalidMessage")
              ELSE /\ activeCalls_' = endCall(activeCalls_, callId)
                   /\ queue' = post(queue, CallEndedTask(callId, "ended", call.chatId))
                   /\ reply' = Reply("EndCall", "ok")
                   /\ UNCHANGED initiating
  /\ UNCHANGED <<handlers, now, storage, cur>>
  /\ Unchanged_directory

----------------------------------------------------------------------------
(* SpecCall: users 1 and 2 share chat 42, user 3 is in no chat, and no
   session has subscribed a listener yet, so the executor runs the posted
   handlers and none of them has anyone to call. All three users call the call
   RPCs, and user 3 sends messages to the chat it is not in. *)

\* a call id is left for every InitiateCall that is under way
IdsLeft == Cardinality(DOMAIN activeCalls_) + Cardinality(DOMAIN initiating)
             < Cardinality(CallIds)

\* the call, if stored, can take one more candidate
IceLeft(callId) ==
  Has(activeCalls_, callId) => Len(activeCalls_[callId].iceCandidates) < MaxIce

InitCall ==
  /\ user_listeners_ = EmptyMap
  /\ chat_participants_ = Put(EmptyMap, 42, {1, 2})
  /\ observers_ = {}
  /\ queue = <<>>
  /\ cur = Idle
  /\ clock = 0
  /\ chats = Put(Put(EmptyMap, 41, [ChatRow(1, {}) EXCEPT !.live = FALSE]),
                 42, ChatRow(1, {1, 2}))
  /\ messages = <<>>
  /\ chat_participants_cache_ = Put(EmptyMap, 42, {1, 2})
  /\ alive = TRUE
  /\ NoCalls
  /\ NoHandlers

NextCall ==
  \/ /\ UNCHANGED clock
     /\ \/ \E u \in Users : IdsLeft /\ InitiateCall_check(u, 42)
        \/ \E u \in Users : Len(queue) < CallQueue /\ InitiateCall_store(u)
        \/ \E u \in Users, id \in CallIds, a \in Answers :
             Len(queue) < CallQueue /\ AnswerCall(u, id, a)
        \/ \E u \in Users, id \in CallIds, x \in Candidates :
             Len(queue) < CallQueue /\ IceLeft(id) /\ SendIceCandidate(u, id, x)
        \/ \E u \in Users, id \in CallIds :
             Len(queue) < CallQueue /\ EndCall(u, id)
        \/ SendMessage(3, 42)
  \/ Run

SpecCall == InitCall /\ [][NextCall]_vars

----------------------------------------------------------------------------
(* SpecStore: WebRTCService on its own, driven through initiateCall, endCall
   and cleanupExpiredCalls while the clock advances hour by hour. reply names
   the method that ran last. *)

Tick ==
  /\ now < MaxNow
  /\ now' = now + 1
  /\ UNCHANGED <<activeCalls_, initiating, reply, handlers, queue, cur, clock>>
  /\ Unchanged_directory
  /\ UNCHANGED storage

Store_initiateCall(chatId, callerId, calleeId) ==
  /\ \E callId \in generateCallId(activeCalls_) :
       activeCalls_' = initiateCall(activeCalls_, callId, chatId, callerId, calleeId,
                                    "offer", now)
  /\ reply' = Reply("initiateCall", "ok")
  /\ UNCHANGED <<handlers, now, initiating, queue, cur>>
  /\ Unchanged_directory
  /\ UNCHANGED storage

Store_endCall(callId) ==
  /\ activeCalls_' = endCall(activeCalls_, callId)
  /\ reply' = Reply("endCall", IF call_found(activeCalls_, callId) THEN "ok" ELSE "false")
  /\ UNCHANGED <<handlers, now, initiating, queue, cur>>
  /\ Unchanged_directory
  /\ UNCHANGED storage

Store_cleanupExpiredCalls ==
  /\ activeCalls_' = cleanupExpiredCalls(activeCalls_, now)
  /\ reply' = Reply("cleanupExpiredCalls", "ok")
  /\ UNCHANGED <<handlers, now, initiating, queue, cur>>
  /\ Unchanged_directory
  /\ UNCHANGED storage

NextStore ==
  \/ /\ UNCHANGED clock
     /\ \/ Store_initiateCall(42, 1, 2)
        \/ \E id \in CallIds : Store_endCall(id)
        \/ Store_cleanupExpiredCalls
        \/ Tick

SpecStore == Init /\ [][NextStore]_vars

----------------------------------------------------------------------------
(* SpecClock: the server as it is built, with time passing: in chat 42
   user 1 starts calls and user 2 ends them, the executor runs what they
   post, the clock advances. These are all the steps that touch the call
   store: nothing in the server calls cleanupExpiredCalls. FairClock: the
   clock does advance and the executor does run. *)

NextClock ==
  \/ /\ UNCHANGED clock
     /\ \/ InitiateCall_check(1, 42)
        \/ Len(queue) < CallQueue /\ InitiateCall_store(1)
        \/ \E id \in CallIds : Len(queue) < CallQueue /\ EndCall(2, id)
        \/ Tick
  \/ Run

SpecClock == InitCall /\ [][NextClock]_vars

FairClock == SpecClock /\ WF_vars(Tick) /\ WF_vars(Run)

----------------------------------------------------------------------------
(* SpecSeed: SubscribeToEvents in its own steps. The handler runs on a thread
   of the RPC pool: between its getChatParticipants and its
   add_chat_participants the handlers of other sessions run. Chat 42 of users
   1 and 2 exists and is in the directory; messages are sent once user 2 has
   been removed and the directory has been told. *)

\* subscribe_user, then getUserChatsWithDetails
SubscribeToEvents_subscribe(userId, listener) ==
  /\ ~Has(seeding, userId)
  /\ queue' = post(queue, SubscribeTask(userId, listener))
  /\ \E ids \in Orders(get_user_chats_details(chats, userId)) :
       seeding' = IF ids = <<>> THEN seeding
                  ELSE Put(seeding, userId, [chats |-> ids, participants |-> {}])
  /\ UNCHANGED <<storage, cur, mutex_, at>>
  /\ Unchanged_directory
  /\ Unchanged_calls

\* auto participants = chatService_->getChatParticipants(chat.id)
SubscribeToEvents_getChatParticipants(userId) ==
  /\ Has(seeding, userId)
  /\ seeding[userId].participants = {}
  /\ LET chat == Head(seeding[userId].chats)
     IN /\ seeding' = [seeding EXCEPT ![userId].participants =
                         {getChatParticipants(chat_participants_cache_, chats, chat)}]
        /\ chat_participants_cache_' =
             getChatParticipants_cache(chat_participants_cache_, chats, chat)
  /\ UNCHANGED <<chats, messages, alive, queue, cur, mutex_, at>>
  /\ Unchanged_directory
  /\ Unchanged_calls

\* chatObservers_->add_chat_participants(chat.id, participants), and on to
\* the next chat
SubscribeToEvents_add_chat_participants(userId) ==
  /\ Has(seeding, userId)
  /\ seeding[userId].participants # {}
  /\ \E participants \in seeding[userId].participants :
       queue' = post(queue, AddTask(Head(seeding[userId].chats), participants))
  /\ seeding' = IF Tail(seeding[userId].chats) = <<>> THEN Erase(seeding, userId)
                ELSE Put(seeding, userId,
                         [chats |-> Tail(seeding[userId].chats), participants |-> {}])
  /\ UNCHANGED <<storage, cur, mutex_, at>>
  /\ Unchanged_directory
  /\ Unchanged_calls

\* user p has been taken out of the chat and no remove_chat_participant of p
\* is waiting for the executor
HasLeft(c, p) ==
  /\ p \notin participant_rows(chats, c)
  /\ \A i \in DOMAIN queue : queue[i] # RemoveTask(c, p)

NextSeed ==
  \/ /\ alive
     /\ UNCHANGED clock
     /\ \/ \E u \in Users2 :
             /\ AllEntries < MaxListeners
             /\ ~Listed_or_pending(u)
             /\ Len(queue) < RpcQueue
             /\ SubscribeToEvents_subscribe(u, ListenerOf(u))
        \/ \E u \in Users2 : SubscribeToEvents_getChatParticipants(u)
        \/ \E u \in Users2 :
             /\ Len(queue) < RpcQueue
             /\ SubscribeToEvents_add_chat_participants(u)
        \/ \E u, p \in Users2 :
             /\ Len(queue) < RpcQueue
             /\ LeaveChatParticipant(u, 42, p)
        \/ /\ Len(messages) < MaxMessages
           /\ Len(queue) + 2 <= RpcQueue
           /\ HasLeft(42, 2)
           /\ SendMessage(1, 42)
  \/ Run
  \/ Invoke

SpecSeed == InitCall /\ [][NextSeed]_vars

----------------------------------------------------------------------------
(* SpecMutex: ChatService seen from two threads of the RPC pool, statement by
   statement where the participant cache and the mutex are concerned; the
   thread of a session is named by its user *)

Frame_ChatService ==
  /\ UNCHANGED <<messages, queue, cur, clock, seeding>>
  /\ Unchanged_directory
  /\ Unchanged_calls

\* getChatParticipants: auto it = chat_participants_cache_.find(chat_id) is
\* under way
getChatParticipants_begin(t, chat_id) ==
  /\ at[t] = Outside
  /\ at' = [at EXCEPT ![t] = [Outside EXCEPT !.pc = "find", !.chat_id = chat_id]]
  /\ UNCHANGED <<chats, chat_participants_cache_, alive, mutex_>>
  /\ Frame_ChatService

\* the find has ended: a hit returns the cached vector, a miss goes on to the
\* lock_guard. A find that ran while another thread was writing the map has
\* read a map in the middle of a change: it hits, misses or crashes.
getChatParticipants_find(t) ==
  /\ at[t].pc = "find"
  /\ LET hit == Has(chat_participants_cache_, at[t].chat_id)
         raced == \E o \in Users2 \ {t} : at[o].pc = "write"
     IN \E found \in (IF raced THEN BOOLEAN ELSE {hit}), crash \in (IF raced THEN BOOLEAN ELSE {FALSE}) :
          /\ alive' = ~crash
          /\ at' = [at EXCEPT ![t] = IF found \/ crash THEN Outside
                                     ELSE [at[t] EXCEPT !.pc = "lock"]]
  /\ UNCHANGED <<chats, chat_participants_cache_, mutex_>>
  /\ Frame_ChatService

\* std::lock_guard lock(mutex_) and the query; the thread is now at
\* chat_participants_cache_[chat_id] = participants
getChatParticipants_query(t) ==
  /\ at[t].pc = "lock"
  /\ mutex_ = 0
  /\ mutex_' = t
  /\ at' = [at EXCEPT ![t] = [pc |-> "write", chat_id |-> at[t].chat_id,
                               participants |-> participant_rows(chats, at[t].chat_id)]]
  /\ UNCHANGED <<chats, chat_participants_cache_, alive>>
  /\ Frame_ChatService

\* the cache has been written; return releases the mutex
getChatParticipants_end(t) ==
  /\ at[t].pc = "write"
  /\ at[t].chat_id # 0
  /\ mutex_ = t
  /\ chat_participants_cache_' =
       Put(chat_participants_cache_, at[t].chat_id, at[t].participants)
  /\ mutex_' = 0
  /\ at' = [at EXCEPT ![t] = Outside]
  /\ UNCHANGED <<chats, alive>>
  /\ Frame_ChatService

\* createChat: lock_guard and the inserts; the thread is now at
\* chat_participants_cache_[chat_id] = std::move(participants)
createChat_begin(t, participant_ids) ==
  /\ at[t] = Outside
  /\ mutex_ = 0
  /\ mutex_' = t
  /\ chats' = createChat_rows(chats, t, participant_ids)
  /\ at' = [at EXCEPT ![t] = [pc |-> "write", chat_id |-> 0,
                               participants |-> {NewChatId(chats)}]]
  /\ UNCHANGED <<chat_participants_cache_, alive>>
  /\ Frame_ChatService

\* the cache has been written; return releases the mutex
createChat_end(t) ==
  /\ at[t].pc = "write"
  /\ at[t].chat_id = 0
  /\ mutex_ = t
  /\ \E chat_id \in at[t].participants :
       chat_participants_cache_' =
         Put(chat_participants_cache_, chat_id, participant_rows(chats, chat_id))
  /\ mutex_' = 0
  /\ at' = [at EXCEPT ![t] = Outside]
  /\ UNCHANGED <<chats, alive>>
  /\ Frame_ChatService

NextMutex ==
  /\ alive
  /\ \/ \E t \in Users2, c \in Chats : getChatParticipants_begin(t, c)
     \/ \E t \in Users2 : getChatParticipants_find(t)
     \/ \E t \in Users2 : getChatParticipants_query(t)
     \/ \E t \in Users2 : getChatParticipants_end(t)
     \/ \E t \in Users2, o \in Users2 :
          /\ Chats \ DOMAIN chats # {}
          /\ createChat_begin(t, {t, o})
     \/ \E t \in Users2 : createChat_end(t)

SpecMutex == Init /\ [][NextMutex]_vars

----------------------------------------------------------------------------
(* Vocabulary of the properties *)

\* listener h is registered for user u
Listed(u, h) == Has(user_listeners_, u) /\ h \in Range(user_listeners_[u])

\* how many times the handler that is running / has just run called h for u
Called(u, h) == Count(cur.done, <<u, h>>)

\* how many entries user u holds for listener h
Registered(u, h) == IF Has(user_listeners_, u) THEN Count(user_listeners_[u], h) ELSE 0

\* the executor takes its next handler in this step, and it is an `op` handler
Runs(op) ==
  /\ queue # <<>>
  /\ ~Running
  /\ queue' = Tail(queue)
  /\ Head(queue).op = op

Finished(op) == cur.task.op = op /\ ~Running

----------------------------------------------------------------------------
(* C1: an OnMessageReceived fan-out for chat c and sender s calls exactly the
   listeners registered for the participants of c other than s: at no moment
   has it called a listener entry of s, of a non-participant or of a chat
   that is not in the directory, nor a listener that s has registered, and
   when it has finished it has called every listener entry of every other
   participant. *)

Addressees(c, s) ==
  {p \in Users \X Listeners :
     /\ Has(chat_participants_, c)
     /\ p[1] \in chat_participants_[c]
     /\ p[1] # s
     /\ Listed(p[1], p[2])}

C1_ReceivedReachesExactlyTheOtherParticipants ==
  cur.task.op = "on_message_received" =>
    /\ Range(cur.done) \subseteq Addressees(cur.task.chatId, cur.task.senderId)
    /\ \A i \in DOMAIN cur.done : ~Listed(cur.task.senderId, cur.done[i][2])
    /\ ~Running => Range(cur.done) = Addressees(cur.task.chatId, cur.task.senderId)

\* chat 42 = {1, 2}, sender 1: the listener of 2 has been called, and the
\* non-participant 3 holds a listener that has not
C1_Witness ==
  /\ Finished("on_message_received")
  /\ cur.task.chatId = 42 /\ cur.task.senderId = 1
  /\ Has(chat_participants_, 42) /\ chat_participants_[42] = {1, 2}
  /\ Listed(3, "L3")
  /\ cur.done = << <<2, "L2">> >>

----------------------------------------------------------------------------
(* C2: processing one event calls any given listener handle at most once,
   also when the handle was subscribed more than once. *)

C2_EachHandleAtMostOncePerEvent ==
  \A h \in Listeners :
    Cardinality({i \in DOMAIN cur.done : cur.done[i][2] = h}) <= 1

----------------------------------------------------------------------------
(* C3: when a listener call of a fan-out throws, every other listener entry
   the event resolved to is still called, once per entry, and the executor
   then takes the next pending handler. *)

C3_FailureIsolated ==
  (cur.task.op \in EventOps /\ cur.threw # 0 /\ ~Running) =>
    /\ \A u \in Users, h \in Listeners :
         Called(u, h) = IF u \in Targets(cur.task) THEN Registered(u, h) ELSE 0
    /\ queue # <<>> => ENABLED Run

\* the first of two calls threw, the second was made, a handler is waiting
C3_Witness ==
  /\ cur.task.op \in EventOps /\ ~Running
  /\ cur.threw = 1
  /\ Len(cur.done) = 2
  /\ queue # <<>>

----------------------------------------------------------------------------
(* C6: an event for a chat without a directory entry, or whose addressed
   users have no listener entry, makes no listener call and raises no error,
   and the lookup leaves both indices as they were. *)

Miss(t) ==
  /\ t.op \in EventOps
  /\ \/ t.op = "on_message_received" /\ ~Has(chat_participants_, t.chatId)
     \/ \A u \in Targets(t) : ~Has(user_listeners_, u)

C6_MissIsSilent ==
  [][ (queue # <<>> /\ ~Running /\ queue' = Tail(queue) /\ Miss(Head(queue))) =>
        /\ cur'.task = Head(queue)
        /\ cur'.todo = <<>> /\ cur'.done = <<>> /\ cur'.threw = 0
        /\ UNCHANGED <<user_listeners_, chat_participants_>> ]_vars

\* a message event for a chat the directory does not hold has been processed
C6_Witness ==
  /\ Finished("on_message_received")
  /\ ~Has(chat_participants_, cur.task.chatId)
  /\ user_listeners_ # EmptyMap
  /\ cur.done = <<>>

----------------------------------------------------------------------------
(* C7: once an unsubscribe_user(u, h) handler has run, h is not called on
   behalf of u by any event processed afterwards, until a subscribe_user(u, h)
   handler runs. Stated step by step: the unsubscribe handler leaves no entry
   of h under u; no step but a subscribe_user(u, h) handler gives u an entry
   of h; and every call a fan-out is about to make goes to an entry that is
   registered. *)

C7_NoCallAfterUnsubscribe ==
  [][ \A u \in Users, h \in Listeners :
        /\ (Runs("unsubscribe_user") /\ Head(queue).userId = u
              /\ Head(queue).listener = h) => ~Listed(u, h)'
        /\ (~Listed(u, h)
              /\ ~(Runs("subscribe_user") /\ Head(queue).userId = u
                     /\ Head(queue).listener = h)) => ~Listed(u, h)'
        /\ (\E i \in DOMAIN cur'.todo : cur'.todo[i] = <<u, h>>) => Listed(u, h)'
    ]_vars

\* an unsubscribe handler has removed the last listener entries of a user,
\* and an event for that user is the next handler
C7_Witness ==
  /\ cur.task.op = "unsubscribe_user" /\ ~cur.same
  /\ ~Has(user_listeners_, cur.task.userId)
  /\ queue # <<>>
  /\ Head(queue).op = "on_message_delivered"
  /\ Head(queue).senderId = cur.task.userId

----------------------------------------------------------------------------
(* C10: add_chat_participants(c, U) leaves the participant set of c equal to
   its union with U and every other entry of both indices as it was; run on
   a chat that holds all of U already it changes nothing, and so does running
   it a second time. *)

C10_AddIsIdempotent ==
  [][ Runs("add_chat_participants") =>
        LET c == Head(queue).chatId
            U == Head(queue).participants
            old == IF Has(chat_participants_, c) THEN chat_participants_[c] ELSE {}
        IN /\ Has(chat_participants_', c) /\ chat_participants_'[c] = old \cup U
           /\ \A d \in Chats \ {c} :
                /\ Has(chat_participants_', d) <=> Has(chat_participants_, d)
                /\ Has(chat_participants_, d) =>
                     chat_participants_'[d] = chat_participants_[d]
           /\ user_listeners_' = user_listeners_
           /\ (Has(chat_participants_, c) /\ U \subseteq old) =>
                chat_participants_' = chat_participants_
           /\ add_participants_impl(chat_participants_', c, U) = chat_participants_'
    ]_vars

\* an add handler with a non-empty argument has run and changed nothing,
\* while the other chat has an entry
C10_Witness ==
  /\ cur.task.op = "add_chat_participants"
  /\ cur.task.chatId = 42
  /\ cur.task.participants # {}
  /\ cur.same
  /\ Has(chat_participants_, 41)

----------------------------------------------------------------------------
(* C4: events of one chat are delivered in the order they were submitted:
   while the fan-out of a chat event has called a listener, no event of the
   same chat that was submitted before it is still waiting for the executor. *)

SameChatEvent(t, e) ==
  /\ t.op \in ChatEventOps
  /\ e.op \in ChatEventOps
  /\ t.chatId = e.chatId

C4_SameChatEventsInSubmissionOrder ==
  (cur.task.op \in ChatEventOps /\ cur.done # <<>>) =>
    \A i \in DOMAIN queue :
      SameChatEvent(queue[i], cur.task) => queue[i].seq > cur.task.seq

\* two events of chat 42 for the same sender: the earlier one has called the
\* sender's listener, the later one waits
C4_Witness ==
  /\ cur.task.op = "on_message_delivered"
  /\ cur.done # <<>>
  /\ queue # <<>>
  /\ Head(queue).op = "on_message_delivered"
  /\ Head(queue).senderId = cur.task.senderId
  /\ Head(queue).seq > cur.task.seq

----------------------------------------------------------------------------
(* C9: an unsubscribe_user(u, h) submitted after an event does not cancel
   the event's call of h: the unsubscribe handler never runs while an event
   submitted before it is waiting; while it waits behind a fan-out, every
   entry of h under u that the event addresses is called or still to be
   called, and is called when the fan-out has finished; and a call still to be
   made always goes to an entry that is still registered. *)

Pending(op, u, h) ==
  \E i \in DOMAIN queue :
    /\ queue[i].op = op
    /\ queue[i].userId = u
    /\ queue[i].listener = h

C9_LaterUnsubscribeDoesNotCancel ==
  /\ cur.task.op = "unsubscribe_user" =>
       \A i \in DOMAIN queue :
         queue[i].op \in EventOps => queue[i].seq > cur.task.seq
  /\ \A u \in Users, h \in Listeners :
       (cur.task.op \in EventOps /\ Pending("unsubscribe_user", u, h)
          /\ u \in Targets(cur.task)) =>
         /\ Called(u, h) + Count(cur.todo, <<u, h>>) = Registered(u, h)
         /\ ~Running => Called(u, h) = Registered(u, h)
  /\ \A i \in DOMAIN cur.todo : Listed(cur.todo[i][1], cur.todo[i][2])

\* the event submitted first has called the listener while the unsubscribe of
\* that listener, submitted second, waits
C9_Witness ==
  /\ cur.task.op = "on_message_delivered"
  /\ ~Running
  /\ Pending("unsubscribe_user", cur.task.senderId, ListenerOf(cur.task.senderId))
  /\ Called(cur.task.senderId, ListenerOf(cur.task.senderId)) = 1

----------------------------------------------------------------------------
(* C5, C8: vocabulary *)

\* users a and b have subscribed and the directory lists both in chat c
SubscribedAndListed(a, b, c) ==
  /\ a # b
  /\ Listed(a, ListenerOf(a))
  /\ Listed(b, ListenerOf(b))
  /\ Has(chat_participants_, c)
  /\ {a, b} \subseteq chat_participants_[c]

\* a successful SendMessage of a in c has stored message m and posted its
\* two events, and nothing has been posted since
Sent(m, c, a) ==
  /\ Len(queue) >= 2
  /\ queue[Len(queue) - 1] = ReceivedTask(m, c, a)
  /\ queue[Len(queue)] = DeliveredTask(c, m, a)

\* the executor is about to take the OnMessageReceived event of message m
Taking(m, c, a) ==
  /\ ~Running
  /\ queue # <<>>
  /\ Head(queue) = ReceivedTask(m, c, a)

\* the listener of u has been called with event op of message m
Got(op, m, u) ==
  /\ cur.task.op = op
  /\ cur.task.messageId = m
  /\ <<u, ListenerOf(u)>> \in Range(cur.done)

\* no OnMessageReceived call goes to the sender or to the sender's listener
NoOwnMessage ==
  cur.task.op = "on_message_received" =>
    \A i \in DOMAIN cur.done :
      /\ cur.done[i][1] # cur.task.senderId
      /\ cur.done[i][2] # ListenerOf(cur.task.senderId)

(* C5 as stated: if A and B are subscribed and the directory lists both in
   the chat when A's SendMessage succeeds, then, as long as the server
   lives, B's listener is eventually called with OnMessageReceived of the
   message and A's listener with OnMessageDelivered, and A's listener is
   never called with OnMessageReceived of A's own message. *)
C5_AsStated ==
  /\ \A a \in Users2, c \in Chats1, m \in 1..MaxMessages :
       \A b \in Users2 \ {a} :
         /\ (Sent(m, c, a) /\ SubscribedAndListed(a, b, c))
              ~> (Got("on_message_received", m, b) \/ ~alive)
         /\ (Sent(m, c, a) /\ SubscribedAndListed(a, b, c))
              ~> (Got("on_message_delivered", m, a) \/ ~alive)
  /\ []NoOwnMessage

(* C5, amended: after A's SendMessage succeeds, as long as the server lives,
   the executor eventually takes the OnMessageReceived event of the message;
   if A and B are subscribed and the directory lists both in the chat at
   that moment, B's listener is then called with it; A's listener, subscribed
   when SendMessage succeeded, is eventually called with OnMessageDelivered;
   and A's listener is never called with OnMessageReceived of A's own
   message. *)
C5_DeliveredToTheParticipantsOfTheMoment ==
  /\ \A a \in Users2, c \in Chats1, m \in 1..MaxMessages :
       /\ Sent(m, c, a) ~> (Taking(m, c, a) \/ ~alive)
       /\ \A b \in Users2 \ {a} :
            (Taking(m, c, a) /\ SubscribedAndListed(a, b, c))
              ~> (Got("on_message_received", m, b) \/ ~alive)
       /\ (Sent(m, c, a) /\ Listed(a, ListenerOf(a)))
            ~> (Got("on_message_delivered", m, a) \/ ~alive)
  /\ []NoOwnMessage

\* both events of a message of user 1 in chat 42 have reached their
\* listeners: user 2 got OnMessageReceived before, user 1 OnMessageDelivered now
C5_Witness ==
  /\ alive
  /\ Got("on_message_delivered", 1, 1)
  /\ ~Running
  /\ cur.task.chatId = 42
  /\ SubscribedAndListed(1, 2, 42)
  /\ Len(messages) = 1

----------------------------------------------------------------------------
(* C8: a listener whose call failed in one fan-out is not called by the
   event the executor processes next. *)

C8_FailedListenerIsNotCalledAgain ==
  [][ (cur.threw # 0 /\ ~Running /\ queue # <<>> /\ queue' = Tail(queue)) =>
        \A i \in DOMAIN cur'.todo : cur'.todo[i] # cur.done[cur.threw] ]_vars

----------------------------------------------------------------------------
(* C11: the remove_chat_participant handler that takes the last user out of
   a chat's participant set erases the chat's entry, and a message event of
   a chat that has no entry resolves to no call at all. *)

C11_LastParticipantErasesTheChat ==
  [][ /\ (Runs("remove_chat_participant")
            /\ Has(chat_participants_, Head(queue).chatId)
            /\ chat_participants_[Head(queue).chatId] \ {Head(queue).userId} = {})
         => ~Has(chat_participants_', Head(queue).chatId)
      /\ (Runs("on_message_received")
            /\ ~Has(chat_participants_, Head(queue).chatId))
         => (cur'.todo = <<>> /\ cur'.done = <<>>)
    ]_vars

\* the handler has just erased chat 42, listeners are registered, and a
\* message event of chat 42 is the next handler
C11_Witness ==
  /\ cur.task.op = "remove_chat_participant"
  /\ ~cur.same
  /\ ~Has(chat_participants_, cur.task.chatId)
  /\ user_listeners_ # EmptyMap
  /\ queue # <<>>
  /\ Head(queue).op = "on_message_received"
  /\ Head(queue).chatId = cur.task.chatId

----------------------------------------------------------------------------
(* C12: the unsubscribe_user handler is idempotent: run on a pair that has
   no entry it leaves both indices as they are, applied again to its own
   result it changes nothing, and it never leaves a user key that maps to an
   empty listener list. *)

C12_UnsubscribeIsIdempotent ==
  [][ Runs("unsubscribe_user") =>
        LET u == Head(queue).userId
            h == Head(queue).listener
        IN /\ ~Listed(u, h) => UNCHANGED <<user_listeners_, chat_participants_>>
           /\ unsubscribe_impl(user_listeners_', u, h) = user_listeners_'
           /\ chat_participants_' = chat_participants_
           /\ \A v \in DOMAIN user_listeners_' : user_listeners_'[v] # <<>>
    ]_vars

\* the listener of the user was subscribed and unsubscribed, and a second
\* unsubscribe has run and changed nothing: the user has no key
C12_Witness ==
  /\ cur.task.op = "unsubscribe_user"
  /\ cur.same
  /\ cur.task.listener \in observers_
  /\ cur.task.listener = ListenerOf(cur.task.userId)
  /\ ~Has(user_listeners_, cur.task.userId)

----------------------------------------------------------------------------
(* C13: an OnMessageDelivered fan-out calls listener entries of the sender
   only, an OnContactListUpdated fan-out listener entries of the addressed
   user only, each entry once, whoever is in the chat. *)

Addressed(t) == IF t.op = "on_message_delivered" THEN t.senderId ELSE t.userId

C13_SingleUserEventsReachTheirUserOnly ==
  cur.task.op \in {"on_message_delivered", "on_contact_list_updated"} =>
    /\ \A i \in DOMAIN cur.done :
         /\ cur.done[i][1] = Addressed(cur.task)
         /\ Listed(Addressed(cur.task), cur.done[i][2])
    /\ \A i \in DOMAIN cur.todo : cur.todo[i][1] = Addressed(cur.task)
    /\ ~Running =>
         \A h \in Listeners :
           Called(Addressed(cur.task), h) = Registered(Addressed(cur.task), h)

\* chat 42 holds users 1 and 2, both have a listener, and the delivery
\* receipt of user 1 has called the listener of user 1 and nothing else
C13_Witness ==
  /\ Finished("on_message_delivered")
  /\ cur.task.senderId = 1
  /\ Has(chat_participants_, 42) /\ chat_participants_[42] = {1, 2}
  /\ Has(user_listeners_, 2)
  /\ Len(cur.done) = 1
  /\ cur.done[1][1] = 1

----------------------------------------------------------------------------
(* C14: a SendIceCandidate by a party of the call posts exactly one handler,
   an IceCandidate event, and nothing else changes in the executor's queue;
   its target is the callee when the caller sends and the caller when the
   callee sends, so it is never the sender and never a third user. *)

\* the step posts exactly the handler t
Posts(t) == queue' = Append(queue, t)

C14_IceCandidateGoesToTheOtherParty ==
  [][ \A u \in Users, id \in CallIds, x \in Candidates :
        (/\ SendIceCandidate(u, id, x)
         /\ Has(activeCalls_, id)
         /\ u \in {activeCalls_[id].callerId, activeCalls_[id].calleeId})
        => LET a == activeCalls_[id].callerId
               b == activeCalls_[id].calleeId
               t == queue'[Len(queue')]
           IN /\ Len(queue') = Len(queue) + 1
              /\ SubSeq(queue', 1, Len(queue)) = queue
              /\ t.op = "on_ice_candidate"
              /\ t.callId = id
              /\ t.candidate = x
              /\ u = a => t.targetUserId = b
              /\ u = b => t.targetUserId = a
              /\ t.targetUserId # u
              /\ t.targetUserId \in {a, b} ]_vars

\* the callee's candidate is waiting for the executor, addressed to the caller
C14_Witness ==
  /\ queue # <<>>
  /\ Head(queue).op = "on_ice_candidate"
  /\ Has(activeCalls_, Head(queue).callId)
  /\ activeCalls_[Head(queue).callId].iceCandidates = <<"X">>
  /\ Head(queue).targetUserId = activeCalls_[Head(queue).callId].callerId
  /\ reply = Reply("SendIceCandidate", "ok")

----------------------------------------------------------------------------
(* C15: no chat ever has two stored calls with the active flag set, also
   when two InitiateCall requests for the chat are handled at the same time
   on different RPC threads. *)

C15_AtMostOneActiveCallPerChat ==
  \A c \in Chats : Cardinality(getActiveCallsForChat(activeCalls_, c)) <= 1

----------------------------------------------------------------------------
(* C16: AnswerCall, SendIceCandidate and EndCall end with
   ChatOperationFailed{ChatNotFound} when no call is stored under the call id,
   and with ChatOperationFailed{UserNotParticipant} when the call is stored
   and the user is not entitled to it: not the callee for AnswerCall, neither
   caller nor callee for the other two. InitiateCall ends with
   UserNotParticipant when the user is not a participant of the chat. *)

Party(u, id) == u \in {activeCalls_[id].callerId, activeCalls_[id].calleeId}

\* what the RPC must end with when the call is unknown or not the user's
Refusal(rpc, id) ==
  Reply(rpc, IF Has(activeCalls_, id) THEN "UserNotParticipant" ELSE "ChatNotFound")

C16_ErrorsOfTheCallRpcs ==
  [][ /\ \A u \in Users, id \in CallIds :
           (~Has(activeCalls_, id) \/ activeCalls_[id].calleeId # u)
           => \A a \in Answers :
                AnswerCall(u, id, a) => reply' = Refusal("AnswerCall", id)
      /\ \A u \in Users, id \in CallIds :
           (~Has(activeCalls_, id) \/ ~Party(u, id))
           => /\ \A x \in Candidates :
                   SendIceCandidate(u, id, x) => reply' = Refusal("SendIceCandidate", id)
              /\ EndCall(u, id) => reply' = Refusal("EndCall", id)
      /\ \A u \in Users, c \in Chats1 :
           u \notin getChatParticipants(chat_participants_cache_, chats, c)
           => (InitiateCall_check(u, c)
                 => reply' = Reply("InitiateCall", "UserNotParticipant")) ]_vars

\* the caller of a stored call has tried to answer it
C16_Witness ==
  /\ reply = Reply("AnswerCall", "UserNotParticipant")
  /\ activeCalls_ # EmptyMap
  /\ \A id \in DOMAIN activeCalls_ : activeCalls_[id].answer = ""

----------------------------------------------------------------------------
(* C17: an RPC that fails its validation changes neither the call store nor
   the directory and posts no handler. The failures: AnswerCall,
   SendIceCandidate and EndCall on an unknown call or by a user the call does
   not entitle; InitiateCall by a user who is not in the chat, or while the
   chat has an active call; SendMessage by a user who is not in the chat. *)

NothingDone == UNCHANGED <<activeCalls_, directory, queue>>

C17_FailedValidationChangesNothing ==
  [][ /\ \A u \in Users, id \in CallIds :
           (~Has(activeCalls_, id) \/ activeCalls_[id].calleeId # u)
           => \A a \in Answers : AnswerCall(u, id, a) => NothingDone
      /\ \A u \in Users, id \in CallIds :
           (~Has(activeCalls_, id) \/ ~Party(u, id))
           => /\ \A x \in Candidates : SendIceCandidate(u, id, x) => NothingDone
              /\ EndCall(u, id) => NothingDone
      /\ \A u \in Users, c \in Chats1 :
           (\/ u \notin getChatParticipants(chat_participants_cache_, chats, c)
            \/ getActiveCallsForChat(activeCalls_, c) # {})
           => (InitiateCall_check(u, c) => NothingDone /\ UNCHANGED initiating)
      /\ \A u \in Users, c \in Chats1 :
           u \notin getChatParticipants(chat_participants_cache_, chats, c)
           => (SendMessage(u, c) => NothingDone /\ UNCHANGED messages) ]_vars

\* a participant has asked for a second call while the chat has one
C17_Witness ==
  /\ reply = Reply("InitiateCall", "InvalidMessage")
  /\ Cardinality(getActiveCallsForChat(activeCalls_, 42)) = 1
  /\ Cardinality(DOMAIN activeCalls_) = 1
  /\ initiating = EmptyMap
  /\ queue = <<>>

----------------------------------------------------------------------------
(* C18: AnswerCall succeeds only for the callee of a stored call. When it
   succeeds, the call holds the supplied answer at the moment the
   notification is posted, nothing else in the store has changed, and exactly
   one handler has been posted: a CallAnswered event addressed to the caller
   of the call. For anyone else it does not succeed and stores nothing. *)

C18_OnlyTheCalleeAnswers ==
  [][ \A u \in Users, id \in CallIds, a \in Answers :
        AnswerCall(u, id, a) =>
          IF Has(activeCalls_, id) /\ activeCalls_[id].calleeId = u
            THEN /\ reply' = Reply("AnswerCall", "ok")
                 /\ activeCalls_' = [activeCalls_ EXCEPT ![id].answer = a]
                 /\ Posts(CallAnsweredTask(id, a, activeCalls_[id].callerId))
                 /\ activeCalls_[id].callerId # u
            ELSE /\ reply'.result # "ok"
                 /\ UNCHANGED <<activeCalls_, queue>> ]_vars

\* the callee's answer is stored and its notification waits for the executor
C18_Witness ==
  /\ reply = Reply("AnswerCall", "ok")
  /\ queue # <<>>
  /\ Head(queue).op = "on_call_answered"
  /\ Has(activeCalls_, Head(queue).callId)
  /\ activeCalls_[Head(queue).callId].answer = Head(queue).answer
  /\ Head(queue).answer \in Answers
  /\ Head(queue).callerId = activeCalls_[Head(queue).callId].callerId

----------------------------------------------------------------------------
(* C19: cleanupExpiredCalls erases exactly the calls created more than 24
   hours before it runs, active or not, and leaves every other call as it
   was: after a sweep, getCall still returns a call aged 23 hours, unchanged,
   and returns nothing for a call aged 25 hours. *)

Age(id) == now - activeCalls_[id].createdAt

C19_SweepErasesExactlyTheExpired ==
  [][ Store_cleanupExpiredCalls =>
        \A id \in CallIds :
          /\ ~Has(activeCalls_, id) => getCall(activeCalls_', id) = {}
          /\ (Has(activeCalls_, id) /\ Age(id) > RetentionHours)
               => getCall(activeCalls_', id) = {}
          /\ (Has(activeCalls_, id) /\ Age(id) <= RetentionHours)
               => getCall(activeCalls_', id) = {activeCalls_[id]} ]_vars

\* a sweep has just run, 25 hours after the first call was stored: the call
\* of 23 hours ago, ended since, is there and the other id is free again
C19_Witness ==
  /\ reply = Reply("cleanupExpiredCalls", "ok")
  /\ now = 25
  /\ Cardinality(DOMAIN activeCalls_) = 1
  /\ \E id \in DOMAIN activeCalls_ : Age(id) = 23 /\ ~activeCalls_[id].isActive

----------------------------------------------------------------------------
(* C20: the call store is swept periodically: a stored call whose 24 hours
   have passed is eventually erased, so abandoned calls do not pile up. *)

Expired(id) == Has(activeCalls_, id) /\ Age(id) > RetentionHours

C20_ExpiredCallsAreEventuallyPurged ==
  \A id \in CallIds : Expired(id) ~> ~Has(activeCalls_, id)

----------------------------------------------------------------------------
(* C21: removeParticipant takes participant p out of chat c only for a
   requester who is a participant of c at that moment and is the creator of c
   or p itself. For any other requester LeaveChatParticipant changes neither
   the tables nor the participant cache and posts nothing; and no step of the
   server takes a participant out of a chat that nobody was entitled to take
   out. *)

Entitled(u, c, p) ==
  /\ Has(chats, c)
  /\ chats[c].live
  /\ u \in chats[c].participants
  /\ (chats[c].created_by = u \/ u = p)

C21_OnlyTheCreatorOrTheParticipantRemoves ==
  [][ /\ \A u \in Users2, c \in Chats, p \in Users2 :
           ~Entitled(u, c, p)
           => (LeaveChatParticipant(u, c, p)
                 => UNCHANGED <<chats, messages, chat_participants_cache_, queue>>)
      /\ \A c \in DOMAIN chats, p \in Users2 :
           (p \in chats[c].participants /\ p \notin chats'[c].participants)
           => \E u \in Users2 : Entitled(u, c, p) ]_vars

\* the creator has taken the other user out of their chat; the directory
\* update waits for the executor
C21_Witness ==
  /\ Has(chats, 42)
  /\ chats[42].live
  /\ chats[42].created_by = 1
  /\ chats[42].participants = {1}
  /\ queue # <<>>
  /\ queue[Len(queue)] = RemoveTask(42, 2)
  /\ queue[1] = AddTask(42, {1, 2})
  /\ Has(chat_participants_cache_, 42)
  /\ chat_participants_cache_[42] = {1}

----------------------------------------------------------------------------
(* C22: when a removeParticipant that succeeds takes the last participant
   out of a chat, the chat and its messages are deleted from the tables and
   the participant cache has no entry for the chat afterwards, whether or not
   the cache had one before. *)

LiveMessages(msgs, c) == {i \in DOMAIN msgs : msgs[i].chat_id = c /\ msgs[i].live}

C22_EmptiedChatIsDeleted ==
  [][ \A u \in Users2, c \in Chats, p \in Users2 :
        (/\ Entitled(u, c, p)
         /\ chats[c].participants \ {p} = {}
         /\ LeaveChatParticipant(u, c, p))
        => /\ ~chats'[c].live
           /\ LiveMessages(messages', c) = {}
           /\ ~Has(chat_participants_cache_', c) ]_vars

----------------------------------------------------------------------------
(* C23: every user an add_chat_participants handler inserts into the
   participant set of a chat in the directory is, when the handler runs, a
   participant of that chat in the tables, however the RPC handlers that read
   the tables and post directory updates interleave. *)

C23_InsertedUsersAreParticipants ==
  [][ (/\ queue # <<>>
       /\ next_handler(queue).op = "add_chat_participants"
       /\ Run)
      => LET t == next_handler(queue)
             before == IF Has(chat_participants_, t.chatId)
                       THEN chat_participants_[t.chatId] ELSE {}
             after == IF Has(chat_participants_', t.chatId)
                      THEN chat_participants_'[t.chatId] ELSE {}
         IN (after \ before) \subseteq participant_rows(chats, t.chatId) ]_vars

----------------------------------------------------------------------------
(* C24: once LeaveChatParticipant has taken user 2 out of chat 42 and its
   remove_chat_participant handler has run, no message sent to chat 42
   afterwards is delivered to a listener of user 2 (user 2 cannot become a
   participant of chat 42 again), however SubscribeToEvents of the users
   interleaves. In SpecSeed every message is sent after that moment. *)

C24_NoDeliveryAfterLeaving ==
  cur.task.op = "on_message_received"
  => \A i \in DOMAIN cur.todo : cur.todo[i][1] # 2

----------------------------------------------------------------------------
(* C25: SubscribeToEvents(u, h) posts the registration of the listener
   before the add_chat_participants of the user's chats, and once it has
   returned and the executor has worked through what was posted, as long as
   the server lives, h is registered for u and every chat the tables list for
   u has in the directory every participant the tables hold for it. *)

Subscribing(u) == \E i \in DOMAIN queue : queue[i] = SubscribeTask(u, ListenerOf(u))

Seeded(u) ==
  \A c \in get_user_chats_details(chats, u) :
    /\ Has(chat_participants_, c)
    /\ participant_rows(chats, c) \subseteq chat_participants_[c]

ListenerFirst(u) ==
  /\ Len(queue') > Len(queue)
  /\ queue'[Len(queue) + 1] = SubscribeTask(u, ListenerOf(u))
  /\ {queue'[i].chatId : i \in (Len(queue) + 2)..Len(queue')}
       = get_user_chats_details(chats, u)
  /\ \A i \in (Len(queue) + 2)..Len(queue') :
       queue'[i] = AddTask(queue'[i].chatId, participant_rows(chats, queue'[i].chatId))

C25_SubscribeRegistersThenSeeds ==
  /\ [][ \A u \in Users2 :
           (~Listed_or_pending(u) /\ SubscribeToEvents(u, ListenerOf(u)))
           => ListenerFirst(u) ]_vars
  /\ \A u \in Users2 :
       Subscribing(u) ~> (~alive \/ (Listed(u, ListenerOf(u)) /\ Seeded(u)))

\* after a restart user 2 has subscribed and the executor has nothing left to
\* do: L2 is registered and chat 42 is in the directory with both users
C25_Witness ==
  /\ queue = <<>>
  /\ cur.task = AddTask(42, {1, 2})
  /\ Listed(2, "L2")
  /\ ~Has(user_listeners_, 1)
  /\ chats[42].participants = {1, 2}
  /\ chat_participants_ = Put(EmptyMap, 42, {1, 2})

----------------------------------------------------------------------------
(* C26: the handlers of the executor never interleave: while a fan-out has
   listener calls left, the next step of the server makes the next of these
   calls or posts a handler; no other handler starts and the directory
   (listeners, participants, observers) is not changed, whatever the RPC
   handlers post in the meantime. *)

C26_HandlersDoNotInterleave ==
  [][ cur.todo # <<>>
      => /\ UNCHANGED directory
         /\ cur'.task = cur.task
         /\ \/ /\ UNCHANGED cur
               /\ Len(queue') >= Len(queue)
               /\ SubSeq(queue', 1, Len(queue)) = queue
            \/ /\ cur'.done = Append(cur.done, Head(cur.todo))
               /\ UNCHANGED queue ]_vars

\* a fan-out has made one of its calls and has another to make, and an
\* unsubscribe_user posted in the meantime waits in the queue
C26_Witness ==
  /\ cur.task.op \in EventOps
  /\ cur.done # <<>>
  /\ cur.todo # <<>>
  /\ queue # <<>>
  /\ queue[1].op = "unsubscribe_user"
  /\ queue[1].seq > cur.task.seq

----------------------------------------------------------------------------
(* C27: what SendMessage does and returns depends on the tables alone: a
   sender who is a participant gets the message stored under the next id and
   the two events posted, whether the executor is idle, busy or has handlers
   waiting; and nothing that happens when the events are handled (a listener
   that throws or times out, a chat the directory does not know) changes the
   stored message or the tables. *)

C27_SendMessageDependsOnPersistenceOnly ==
  [][ /\ \A u \in Users2, c \in Chats :
           SendMessage(u, c)
           => IF Has(chats, c) /\ chats[c].live /\ u \in chats[c].participants
                THEN /\ Len(messages') = Len(messages) + 1
                     /\ messages'[Len(messages')] =
                          [chat_id |-> c, sender_id |-> u, live |-> TRUE]
                     /\ queue' = queue \o <<ReceivedTask(Len(messages'), c, u),
                                             DeliveredTask(c, Len(messages'), u)>>
                     /\ UNCHANGED cur
                ELSE UNCHANGED <<messages, queue, cur>>
      /\ (cur' # cur) => UNCHANGED <<chats, messages>> ]_vars

\* message 1 is stored, and the fan-out of its on_message_received has ended
\* with a listener call that threw
C27_Witness ==
  /\ Len(messages) = 1
  /\ messages[1].live
  /\ cur.task.op = "on_message_received"
  /\ cur.task.messageId = 1
  /\ cur.done # <<>>
  /\ cur.threw # 0
  /\ cur.todo = <<>>

----------------------------------------------------------------------------
(* C28: every read and every write of chat_participants_cache_ is made by
   a thread that holds the mutex of ChatService, so that no two threads are
   at the cache at the same time. *)

AtTheCache(t) == at[t].pc \in {"find", "write"}

C28_CacheOnlyUnderTheMutex ==
  /\ \A t \in Users2 : AtTheCache(t) => mutex_ = t
  /\ \A t \in Users2 : \A o \in Users2 \ {t} : ~(AtTheCache(t) /\ AtTheCache(o))

----------------------------------------------------------------------------
(* C29: once EndCall has succeeded for a call id, the active flag of the
   call stays false, and the AnswerCall, SendIceCandidate and EndCall
   requests that come later for that id are rejected: they leave the stored
   call as it is and post no signaling event for it. *)

C29_EndedCallsStayEnded ==
  [][ \A id \in CallIds :
        (Has(activeCalls_, id) /\ ~activeCalls_[id].isActive)
        => /\ Has(activeCalls_', id)
           /\ activeCalls_'[id] = activeCalls_[id]
           /\ \/ Len(queue') <= Len(queue)
              \/ queue'[Len(queue')].op \notin CallEventOps
              \/ queue'[Len(queue')].callId # id ]_vars

----------------------------------------------------------------------------
(* C30: when removeParticipant takes the last participant out of a chat,
   the cache entry of the chat is erased once, by deleteChat, and no erase is
   made through the iterator of the entry that is gone: the removal ends like
   any other, the server lives on, the entry is gone and the directory is
   told. *)

C30_LastRemovalErasesOnce ==
  [][ \A u \in Users2, c \in Chats, p \in Users2 :
        (/\ Entitled(u, c, p)
         /\ Has(chat_participants_cache_, c)
         /\ chat_participants_cache_[c] \ {p} = {}
         /\ LeaveChatParticipant(u, c, p))
        => /\ alive'
           /\ ~Has(chat_participants_cache_', c)
           /\ queue' = Append(queue, RemoveTask(c, p)) ]_vars

=============================================================================
